---- MODULE Spec2Model ----
(***************************************************************************)
(* A model of the genetic nesting solver (nesting_solver.py) and of the    *)
(* geometry kernel it calls (geometry_util.py).                            *)
(*                                                                         *)
(* Coordinates are integers.  math.sin(math.pi) is 1.2e-16 and not 0, so   *)
(* a part turned by 180 degrees has coordinates off by some 1e-15 in the   *)
(* source.  The calls followed here are those where this rounding changes  *)
(* no bounding box, and with it no position and no fitness: calls with one *)
(* rotation variant, and calls with two variants of parts whose outermost  *)
(* points lie on the axes (RotatesExactly).  Sequences are 1-based here    *)
(* and 0-based in the source; part ids, rotation indices, cut points and   *)
(* generation numbers keep the source's 0-based values.                    *)
(***************************************************************************)
EXTENDS Integers, Sequences, FiniteSets, TLC

(***************************************************************************)
(* Program constants                                                       *)
(***************************************************************************)
\* float('inf'): larger than any area a modelled container can enclose
Infinity == 999999999
\* the defaults of NestingSolver.__init__
DefaultPopulationSize == 10
DefaultMutationRate == 10
DefaultRotations == 4
DefaultSpacing == 0
DefaultMaxGenerations == 50
\* "no improvement for 10 generations"
Patience == 10
\* the floor of the grid step and the divisor of the part's smaller side
MinStep == 20
StepDivisor == 4
\* random.choice(population[:5])
ParentPool == 5

(***************************************************************************)
(* Bounds of the model                                                     *)
(***************************************************************************)
\* the largest population_size * rotations a call is followed for
MaxLoad == 4
\* the largest population_size * rotations * max_generations a call with
\* more than one part is followed for
MaxWork == 8
\* the most points a polygon passed to a direct call has
MaxPoints == 4

\* most genes of an individual passed to a direct call of _mutate
MaxGenes == 3

\* the largest quantity, and the most copies duplicate_part is asked for
MaxQuantity == 2

\* most part instances an SVGNester is followed to
MaxInstances == 5

(***************************************************************************)
(* geometry_util.py                                                        *)
(***************************************************************************)
Point(px, py) == [x |-> px, y |-> py]

SetMin(S) == CHOOSE m \in S : \A n \in S : m <= n

SetMax(S) == CHOOSE m \in S : \A n \in S : m >= n

Min2(a, b) == IF a <= b THEN a ELSE b

Max2(a, b) == IF a >= b THEN a ELSE b

\* get_polygon_bounds
GetPolygonBounds(polygon) ==
    IF polygon = <<>>
    THEN [x |-> 0, y |-> 0, width |-> 0, height |-> 0]
    ELSE LET xs == {polygon[i].x : i \in DOMAIN polygon}
             ys == {polygon[i].y : i \in DOMAIN polygon}
         IN  [x |-> SetMin(xs), y |-> SetMin(ys),
              width |-> SetMax(xs) - SetMin(xs),
              height |-> SetMax(ys) - SetMin(ys)]

\* math.cos and math.sin of degrees_to_radians(d), d a multiple of 90, as
\* the integer the result is within 2e-16 of
CosDeg(d) == CASE d % 360 = 0 -> 1 [] d % 360 = 180 -> -1 [] OTHER -> 0

SinDeg(d) == CASE d % 360 = 90 -> 1 [] d % 360 = 270 -> -1 [] OTHER -> 0

\* rotate_polygon: about the origin
RotatePolygon(polygon, degrees) ==
    [i \in DOMAIN polygon |->
        Point(polygon[i].x * CosDeg(degrees) - polygon[i].y * SinDeg(degrees),
              polygon[i].x * SinDeg(degrees) + polygon[i].y * CosDeg(degrees))]

\* translate_polygon
TranslatePolygon(polygon, dx, dy) ==
    [i \in DOMAIN polygon |-> Point(polygon[i].x + dx, polygon[i].y + dy)]

(***************************************************************************)
(* nesting_solver.py: the bottom-left placer and the fitness evaluation    *)
(***************************************************************************)
NoPosition == [found |-> FALSE, x |-> 0, y |-> 0]

\* _bounds_overlap with the "not" of line 161 left out
BoundsOverlapNoNegation(bounds1, bounds2) ==
    \/ bounds1.x + bounds1.width <= bounds2.x
    \/ bounds2.x + bounds2.width <= bounds1.x
    \/ bounds1.y + bounds1.height <= bounds2.y
    \/ bounds2.y + bounds2.height <= bounds1.y

\* _bounds_overlap
BoundsOverlap(bounds1, bounds2) ==
    ~ (\/ bounds1.x + bounds1.width <= bounds2.x
       \/ bounds2.x + bounds2.width <= bounds1.x
       \/ bounds1.y + bounds1.height <= bounds2.y
       \/ bounds2.y + bounds2.height <= bounds1.y)

\* step_size = max(20, min(width, height) // 4)
StepSize(poly_bounds) ==
    Max2(MinStep, Min2(poly_bounds.width, poly_bounds.height) \div StepDivisor)

\* list(range(start, stop, step)), step > 0
RECURSIVE PyRange(_, _, _)
PyRange(start, stop, step) ==
    IF start >= stop THEN <<>>
    ELSE <<start>> \o PyRange(start + step, stop, step)

\* the containment test without its first two comparisons (lines 143-144)
InsideContainerUpperOnly(test_bounds, container_bounds) ==
    /\ test_bounds.x + test_bounds.width
          <= container_bounds.x + container_bounds.width
    /\ test_bounds.y + test_bounds.height
          <= container_bounds.y + container_bounds.height

\* the containment test of lines 143-146
InsideContainer(test_bounds, container_bounds) ==
    /\ test_bounds.x >= container_bounds.x
    /\ test_bounds.y >= container_bounds.y
    /\ test_bounds.x + test_bounds.width
          <= container_bounds.x + container_bounds.width
    /\ test_bounds.y + test_bounds.height
          <= container_bounds.y + container_bounds.height

\* the loop of lines 149-153 over the parts already placed
NoPlacedOverlap(test_bounds, placed) ==
    \A k \in DOMAIN placed :
        ~ BoundsOverlap(test_bounds, GetPolygonBounds(placed[k].polygon))

\* the tests of lines 143-155 on the bounds of the translated polygon
BoundsOk(test_bounds, placed, container_bounds) ==
    /\ InsideContainer(test_bounds, container_bounds)
    /\ NoPlacedOverlap(test_bounds, placed)

\* the body of the two loops: whether candidate (x, y) is returned
CandidateOk(polygon, placed, container_bounds, x, y) ==
    BoundsOk(GetPolygonBounds(TranslatePolygon(polygon, x, y)), placed,
             container_bounds)

\* y_positions, lines 132-134
YPositions(container_bounds, poly_bounds) ==
    PyRange(container_bounds.y,
            container_bounds.y + container_bounds.height - poly_bounds.height,
            StepSize(poly_bounds))

\* the range of lines 137-138
XPositions(container_bounds, poly_bounds) ==
    PyRange(container_bounds.x,
            container_bounds.x + container_bounds.width - poly_bounds.width,
            StepSize(poly_bounds))

\* the candidates in the order the nested loops of lines 136-138 visit them:
\* row by row from the bottom, each row from the left
Candidates(xs, ys) ==
    [k \in 1..(Len(xs) * Len(ys)) |->
        [x |-> xs[((k - 1) % Len(xs)) + 1],
         y |-> ys[((k - 1) \div Len(xs)) + 1]]]

\* lines 136-158: the first candidate that passes, None after the last
RECURSIVE Scan(_, _, _, _)
Scan(polygon, placed, container_bounds, candidates) ==
    IF candidates = <<>> THEN NoPosition
    ELSE IF CandidateOk(polygon, placed, container_bounds,
                        Head(candidates).x, Head(candidates).y)
         THEN [found |-> TRUE, x |-> Head(candidates).x,
               y |-> Head(candidates).y]
         ELSE Scan(polygon, placed, container_bounds, Tail(candidates))

\* _find_position from line 129 on, poly_bounds being that of line 126
GridScan(polygon, placed, container_bounds, poly_bounds) ==
    Scan(polygon, placed, container_bounds,
         Candidates(XPositions(container_bounds, poly_bounds),
                    YPositions(container_bounds, poly_bounds)))

\* _find_position
FindPosition(polygon, placed, container_bounds) ==
    GridScan(polygon, placed, container_bounds, GetPolygonBounds(polygon))

\* solve, line 34
RotationAngle(rotations, r) == (360 \div rotations) * r

\* solve, lines 30-37: each part with its rotation variants
PreparedParts(parts, rotations) ==
    [i \in DOMAIN parts |->
        [id |-> i - 1,
         rotations |->
            [r \in 1..rotations |->
                [angle |-> RotationAngle(rotations, r - 1),
                 polygon |-> RotatePolygon(parts[i],
                                           RotationAngle(rotations, r - 1))]]]]

\* lines 103-111: the placement appended when a position was found
AddPlacement(placements, id, rotation_data, position) ==
    IF position.found
    THEN Append(placements,
                [id |-> id,
                 x |-> position.x,
                 y |-> position.y,
                 rotation |-> rotation_data.angle,
                 polygon |-> TranslatePolygon(rotation_data.polygon,
                                              position.x, position.y)])
    ELSE placements

\* lines 98-111: one pass of the loop over the genes
PlaceGene(placements, id, rotation_data, container_bounds) ==
    AddPlacement(placements, id, rotation_data,
                 FindPosition(rotation_data.polygon, placements,
                              container_bounds))

\* the loop of lines 97-111 leaving at the first gene without a position
RECURSIVE PlaceGenesBreak(_, _, _, _, _)
PlaceGenesBreak(genes, i, placements, prepared, container_bounds) ==
    IF i > Len(genes) THEN placements
    ELSE IF ~ FindPosition(prepared[genes[i].id + 1]
                               .rotations[genes[i].rotation + 1].polygon,
                           placements, container_bounds).found
         THEN placements
         ELSE PlaceGenesBreak(genes, i + 1,
                              PlaceGene(placements, genes[i].id,
                                        prepared[genes[i].id + 1]
                                            .rotations[genes[i].rotation + 1],
                                        container_bounds),
                              prepared, container_bounds)

\* the loop of lines 97-111 from gene i on, placements being those made so far
RECURSIVE PlaceGenes(_, _, _, _, _)
PlaceGenes(genes, i, placements, prepared, container_bounds) ==
    IF i > Len(genes) THEN placements
    ELSE PlaceGenes(genes, i + 1,
                    PlaceGene(placements, genes[i].id,
                              prepared[genes[i].id + 1]
                                  .rotations[genes[i].rotation + 1],
                              container_bounds),
                    prepared, container_bounds)

\* all_points of lines 116-118
RECURSIVE AllPoints(_)
AllPoints(placements) ==
    IF placements = <<>> THEN <<>>
    ELSE Head(placements).polygon \o AllPoints(Tail(placements))

\* line 121
BoundsArea(bounds) == bounds.width * bounds.height

\* lines 113-123
FitnessOf(placements) ==
    IF placements = <<>>
    THEN [fitness |-> Infinity, placements |-> <<>>]
    ELSE [fitness |-> BoundsArea(GetPolygonBounds(AllPoints(placements))),
          placements |-> placements]

\* _evaluate_fitness
EvaluateFitness(genes, prepared, container) ==
    FitnessOf(PlaceGenes(genes, 1, <<>>, prepared,
                         GetPolygonBounds(container)))

(***************************************************************************)
(* nesting_solver.py: the genetic operators                                *)
(***************************************************************************)
\* the values random.randint(1, size - 1) can return; empty when size <= 1
CutPoints(size) == 1..(size - 1)

\* line 170 as parent1.genes[:cut] + parent2.genes[cut - 1:]: the child has
\* one gene more than its parents
CrossoverKeepsCutGene(genes1, genes2, cut) ==
    SubSeq(genes1, 1, Min2(cut, Len(genes1)))
        \o SubSeq(genes2, cut, Len(genes2))

\* _crossover, line 170: parent1.genes[:cut] + parent2.genes[cut:]
Crossover(genes1, genes2, cut) ==
    SubSeq(genes1, 1, Min2(cut, Len(genes1)))
        \o SubSeq(genes2, cut + 1, Len(genes2))

\* line 177 as genes[i] = genes[j] alone: the gene at i is lost
SwapGenesOverwrites(genes, i, j) ==
    [k \in DOMAIN genes |-> IF k = i + 1 THEN genes[j + 1] ELSE genes[k]]

\* line 177: genes[i], genes[j] = genes[j], genes[i]  (i, j 0-based)
SwapGenes(genes, i, j) ==
    [k \in DOMAIN genes |->
        IF k = i + 1 THEN genes[j + 1]
        ELSE IF k = j + 1 THEN genes[i + 1]
        ELSE genes[k]]

\* _mutate: draw is random.randint(1, 100), (i, j) is random.sample(range(n), 2)
Mutate(genes, mutation_rate, draw, i, j) ==
    IF draw <= mutation_rate /\ Len(genes) > 1
    THEN SwapGenes(genes, i, j)
    ELSE genes

\* draws of random.randint(1, 100) that decide line 174 each way it can go:
\* the two values around the rate, and the largest
DrawSet(mutation_rate) ==
    {100} \cup ({mutation_rate, mutation_rate + 1} \cap (1..100))

\* the results of random.sample(range(n), 2)
SamplePairs(n) ==
    {ij \in (0..(n - 1)) \X (0..(n - 1)) : ij[1] # ij[2]}

\* n draws with replacement in the place of random.shuffle
ShuffleOrdersWithRepeats(n) == [1..n -> 1..n]

\* the orders random.shuffle can leave n genes in
ShuffleOrders(n) ==
    {f \in [1..n -> 1..n] : \A a, b \in 1..n : a # b => f[a] # f[b]}

\* seq[:k] of Python, k possibly negative or beyond the end
PyPrefix(seq, k) ==
    IF k >= 0 THEN SubSeq(seq, 1, Min2(k, Len(seq)))
    ELSE SubSeq(seq, 1, Max2(0, Len(seq) + k))

\* list.sort(key = fitness): stable insertion of oid into a sorted list
RECURSIVE InsertByFitness(_, _, _)
InsertByFitness(sorted, oid, h) ==
    IF sorted = <<>> THEN <<oid>>
    ELSE IF h[oid].fitness < h[sorted[Len(sorted)]].fitness
         THEN Append(InsertByFitness(SubSeq(sorted, 1, Len(sorted) - 1), oid, h),
                     sorted[Len(sorted)])
         ELSE Append(sorted, oid)

\* line 76 left out: the population stays in the order it was bred in
SortByFitnessLeftOut(pop, h) == pop

\* population.sort(key=lambda x: x.fitness), line 76
RECURSIVE SortByFitness(_, _)
SortByFitness(pop, h) ==
    IF pop = <<>> THEN <<>>
    ELSE InsertByFitness(SortByFitness(SubSeq(pop, 1, Len(pop) - 1), h),
                         pop[Len(pop)], h)


(***************************************************************************)
(* geometry_util.py: area and containment                                  *)
(***************************************************************************)
Abs(a) == IF a < 0 THEN -a ELSE a

\* almost_equal with the default tolerance TOL = 1e-9: the coordinates are
\* integers, so a - b is one, and it is below 1e-9 exactly when it is below 1
AlmostEqual(a, b) == Abs(a - b) < 1

\* polygon_area, lines 108-112: area after the passes for the first i points
RECURSIVE ShoelaceSum(_, _)
ShoelaceSum(polygon, i) ==
    IF i = 0 THEN 0
    ELSE ShoelaceSum(polygon, i - 1)
            + polygon[i].x * polygon[(i % Len(polygon)) + 1].y
            - polygon[(i % Len(polygon)) + 1].x * polygon[i].y

\* polygon_area returning abs(area): the orientation is lost
PolygonAreaUnsigned(polygon) ==
    IF Len(polygon) < 3 THEN 0 ELSE Abs(ShoelaceSum(polygon, Len(polygon)))

\* polygon_area times 2: line 114 halves the sum, which need not leave an
\* integer
PolygonAreaTimes2(polygon) ==
    IF Len(polygon) < 3 THEN 0 ELSE ShoelaceSum(polygon, Len(polygon))

\* what point_in_polygon does: it returns a value or it raises
Returned(value) == [raised |-> "", value |-> value]

Raised(exception) == [raised |-> exception, value |-> FALSE]

\* line 149, left operand of "and"
Straddles(y, pi, pj) == (pi.y > y) # (pj.y > y)

\* line 149, right operand: x < (xj - xi) * (y - yi) / (yj - yi) + xi, with
\* both sides less xi and times yj - yi, which turns "<" round when negative
LeftOfEdge(x, y, pi, pj) ==
    IF pj.y - pi.y > 0
    THEN (x - pi.x) * (pj.y - pi.y) < (pj.x - pi.x) * (y - pi.y)
    ELSE (x - pi.x) * (pj.y - pi.y) > (pj.x - pi.x) * (y - pi.y)

\* line 149 with the operands of "and" the other way round: the division
\* is evaluated for every edge
DividesByZeroUnguarded(y, pi, pj) == pj.y - pi.y = 0

\* line 149 divides by yj - yi whenever the right operand is evaluated
DividesByZero(y, pi, pj) == Straddles(y, pi, pj) /\ pj.y - pi.y = 0

\* lines 145-151: inside after the passes for the first i points; j is the
\* point before i, the last one in the first pass
RECURSIVE Parity(_, _, _)
Parity(point, polygon, i) ==
    IF i = 0 THEN FALSE
    ELSE Parity(point, polygon, i - 1)
            # (/\ Straddles(point.y, polygon[i],
                            polygon[IF i = 1 THEN Len(polygon) ELSE i - 1])
               /\ LeftOfEdge(point.x, point.y, polygon[i],
                             polygon[IF i = 1 THEN Len(polygon) ELSE i - 1]))

\* point_in_polygon
PointInPolygon(point, polygon) ==
    IF Len(polygon) < 3 THEN Returned(FALSE)
    ELSE IF \E i \in DOMAIN polygon :
               DividesByZero(point.y, polygon[i],
                             polygon[IF i = 1 THEN Len(polygon) ELSE i - 1])
         THEN Raised("ZeroDivisionError")
         ELSE Returned(Parity(point, polygon, Len(polygon)))

(***************************************************************************)
(* nfp_calculator.py                                                       *)
(***************************************************************************)
\* tolerance = None
None == [num |-> 0, den |-> 0]

\* NFPCalculator.tolerance = 1e-6, as the fraction num / den
NfpTolerance == [num |-> 1, den |-> 1000000]

\* line 128 and 130: abs(cross) / sqrt(len2) < tolerance.  Both sides are
\* squared; when abs(cross) * den is beyond num * num * len2 so is its
\* square, which is then not computed.
DistanceBelow(cross, len2, tolerance) ==
    /\ tolerance.num > 0
    /\ Abs(cross) * tolerance.den <= tolerance.num * tolerance.num * len2
    /\ (Abs(cross) * tolerance.den) * (Abs(cross) * tolerance.den)
          < tolerance.num * tolerance.num * len2

\* _point_on_line
PointOnLine(p1, p2, point, tolerance) ==
    IF AlmostEqual(p2.x - p1.x, 0) /\ AlmostEqual(p2.y - p1.y, 0)
    THEN FALSE
    ELSE DistanceBelow((p2.y - p1.y) * point.x - (p2.x - p1.x) * point.y
                           + p2.x * p1.y - p2.y * p1.x,
                       (p2.x - p1.x) * (p2.x - p1.x)
                           + (p2.y - p1.y) * (p2.y - p1.y),
                       tolerance)

\* simplify_nfp, lines 111-117: simplified after the passes for the first i
\* points; nfp[i - 1] of the first pass is the last point
RECURSIVE Simplified(_, _, _)
Simplified(nfp, tolerance, i) ==
    IF i = 0 THEN <<>>
    ELSE Simplified(nfp, tolerance, i - 1)
            \o (IF PointOnLine(nfp[IF i = 1 THEN Len(nfp) ELSE i - 1],
                               nfp[(i % Len(nfp)) + 1], nfp[i], tolerance)
                THEN <<>>
                ELSE <<nfp[i]>>)

\* line 119
SimplifiedOrInput(simplified, nfp) ==
    IF Len(simplified) >= 3 THEN simplified ELSE nfp

\* simplify_nfp
SimplifyNfp(nfp, tolerance) ==
    IF Len(nfp) < 3 THEN nfp
    ELSE SimplifiedOrInput(Simplified(nfp,
                                      IF tolerance = None THEN NfpTolerance
                                      ELSE tolerance,
                                      Len(nfp)),
                           nfp)

\* list(reversed(seq))
Reversed(seq) == [i \in DOMAIN seq |-> seq[Len(seq) + 1 - i]]

\* _calculate_nfp_segment
CalculateNfpSegment(edge_start, edge_end, moving) ==
    <<Point(edge_start.x - moving[1].x, edge_start.y - moving[1].y),
      Point(edge_end.x - moving[1].x, edge_end.y - moving[1].y)>>

\* calculate_nfp, lines 21-28: nfp_points after the first i edges
RECURSIVE NfpPoints(_, _, _)
NfpPoints(stationary, moving, i) ==
    IF i = 0 THEN <<>>
    ELSE NfpPoints(stationary, moving, i - 1)
            \o CalculateNfpSegment(stationary[i],
                                   stationary[(i % Len(stationary)) + 1],
                                   moving)

\* lines 56-58: cleaned with the next point looked at
AppendUnlessSame(cleaned, point) ==
    IF AlmostEqual(point.x, cleaned[Len(cleaned)].x)
       /\ AlmostEqual(point.y, cleaned[Len(cleaned)].y)
    THEN cleaned
    ELSE Append(cleaned, point)

\* _remove_duplicate_points, lines 54-58: cleaned after the first i points
RECURSIVE Cleaned(_, _)
Cleaned(points, i) ==
    IF i = 1 THEN <<points[1]>>
    ELSE AppendUnlessSame(Cleaned(points, i - 1), points[i])

\* lines 60-63: a last point that repeats the first is dropped
WithoutClosingPoint(cleaned) ==
    IF /\ Len(cleaned) > 1
       /\ AlmostEqual(cleaned[Len(cleaned)].x, cleaned[1].x)
       /\ AlmostEqual(cleaned[Len(cleaned)].y, cleaned[1].y)
    THEN SubSeq(cleaned, 1, Len(cleaned) - 1)
    ELSE cleaned

\* _remove_duplicate_points
RemoveDuplicatePoints(points) ==
    IF points = <<>> THEN <<>>
    ELSE WithoutClosingPoint(Cleaned(points, Len(points)))

\* calculate_nfp, lines 16-19: the list as the loop uses it
Oriented(polygon, flip) == IF flip THEN Reversed(polygon) ELSE polygon

\* lines 30-35
RegionOf(nfp_points) ==
    IF Len(nfp_points) < 3 THEN <<>>
    ELSE IF Len(RemoveDuplicatePoints(nfp_points)) >= 3
         THEN <<RemoveDuplicatePoints(nfp_points)>>
         ELSE <<>>

\* calculate_nfp
CalculateNfp(stationary, moving) ==
    IF Len(stationary) < 3 \/ Len(moving) < 3 THEN <<>>
    ELSE RegionOf(NfpPoints(Oriented(stationary,
                                     PolygonAreaTimes2(stationary) < 0),
                            Oriented(moving, PolygonAreaTimes2(moving) > 0),
                            Len(stationary)))

\* nfp_intersect, lines 97-100, area1 and area2 being twice the areas of
\* lines 94-95
SmallerRegion(nfp1, nfp2, area1, area2) ==
    IF area1 < area2
    THEN IF area1 > 0 THEN <<nfp1>> ELSE <<>>
    ELSE IF area2 > 0 THEN <<nfp2>> ELSE <<>>

\* nfp_intersect
NfpIntersect(nfp1, nfp2) ==
    SmallerRegion(nfp1, nfp2,
                  Abs(PolygonAreaTimes2(nfp1)), Abs(PolygonAreaTimes2(nfp2)))

(***************************************************************************)
(* The inputs a call is made with                                          *)
(***************************************************************************)
Rect(x0, y0, w, h) ==
    <<Point(x0, y0), Point(x0 + w, y0), Point(x0 + w, y0 + h), Point(x0, y0 + h)>>

\* a 10 x 10 square at the origin; four of them fit side by side
Square10 == Rect(0, 0, 10, 10)

\* a 60 x 60 square: a 100 x 100 sheet has room for only one
Square60 == Rect(0, 0, 60, 60)

\* wider than the sheet: never placed
Bar120 == Rect(0, 0, 120, 10)

\* a kite around the origin, 40 wide and 30 high; turned by 180 degrees it
\* reaches further to the left and further down
Kite == <<Point(30, 0), Point(0, 20), Point(-10, 0), Point(0, -10)>>

\* a diamond around the origin, 40 x 40
Diamond20 == <<Point(20, 0), Point(0, 20), Point(-20, 0), Point(0, -20)>>

PartLists ==
    {<<>>, <<Square10>>, <<Kite>>,
     <<Square10, Square60>>, <<Kite, Diamond20>>, <<Bar120, Square10>>}

\* Polygon([]) is empty; the sheet of create_standard_sheet(100, 100)
Containers == {<<>>, Rect(0, 0, 100, 100)}

\* the dictionaries passed to configure(): one key each
ConfigUpdates ==
    {[k \in {"population_size"} |-> v] : v \in 0..MaxLoad}
        \cup {[k \in {"mutation_rate"} |-> v] : v \in {150}}
        \cup {[k \in {"rotations"} |-> v] : v \in {0, 1, 2}}
        \cup {[k \in {"max_generations"} |-> v] : v \in 0..MaxWork}

\* the configurations of section 4.3 of the specification
ValidConfig(cfg) ==
    /\ cfg.population_size >= 2
    /\ cfg.mutation_rate >= 0 /\ cfg.mutation_rate <= 100
    /\ cfg.rotations >= 1
    /\ cfg.max_generations >= 1

\* rotate_polygon by 180 degrees leaves the bounds of the polygon free of
\* rounding: the points furthest left and right have y = 0, those furthest
\* up and down have x = 0
RotatesExactly(polygon) ==
    \A i \in DOMAIN polygon :
        /\ polygon[i].x \in {GetPolygonBounds(polygon).x,
                             GetPolygonBounds(polygon).x
                                 + GetPolygonBounds(polygon).width}
              => polygon[i].y = 0
        /\ polygon[i].y \in {GetPolygonBounds(polygon).y,
                             GetPolygonBounds(polygon).y
                                 + GetPolygonBounds(polygon).height}
              => polygon[i].x = 0

\* the rotation variants of every part are those RotatePolygon computes
ExactRotations(cfg, ps) ==
    \/ cfg.rotations <= 1
    \/ /\ cfg.rotations = 2
       /\ \A i \in DOMAIN ps : RotatesExactly(ps[i])

\* line 27 testing the parts only
NothingToPlaceOnlyParts(ps, c) == ps = <<>>

\* solve, line 27: not parts or not container
NothingToPlace(ps, c) == ps = <<>> \/ c = <<>>

\* The calls the model follows: any call that returns at line 28; calls with
\* one part (they end in the first refill) up to MaxLoad; calls with more
\* parts up to MaxLoad and MaxWork.
Modelled(cfg, ps, c) ==
    \/ NothingToPlace(ps, c)
    \/ /\ ExactRotations(cfg, ps)
       /\ cfg.population_size * cfg.rotations <= MaxLoad
       /\ \/ Len(ps) = 1
          \/ cfg.population_size * cfg.rotations * cfg.max_generations
                <= MaxWork

(***************************************************************************)
(* State                                                                   *)
(***************************************************************************)
VARIABLES
    config,                 \* NestingSolver.config
    pc,                     \* where solve() is: idle, populate, evaluate,
                            \* refill, done, raised
    error,                  \* the exception solve() raised and the line
                            \* that raised it, NoError if none
    parts,                  \* the arguments of the call
    container,
    heap,                   \* the Individual objects by identity
    population,             \* identities, in list order
    new_population,
    best_individual,        \* an identity, NoIndividual for None
    best_fitness,
    no_improvement_count,
    generation,             \* the loop variable of line 55
    result,                 \* <<>>, or <<the dictionary returned>>
    evaluated,              \* every fitness _evaluate_fitness returned so far
    fn,                     \* the function of a direct call, "" if none
    args,                   \* its arguments
    locals,                 \* <<>>, or the local variables it has assigned
    ret,                    \* <<>>, or <<the value it returned>>
    nester                  \* the fields of an SVGNester

\* a direct call of one function of the kernel or of the NFP calculator
call == <<fn, args, locals, ret>>

\* the state of a NestingSolver and of its solve()
solver ==
    <<config, pc, error, parts, container, heap, population, new_population,
      best_individual, best_fitness, no_improvement_count, generation, result,
      evaluated>>

vars ==
    <<config, pc, error, parts, container, heap, population, new_population,
      best_individual, best_fitness, no_improvement_count, generation, result,
      evaluated, call, nester>>

\* best_individual = None
NoIndividual == 0

NoError == [type |-> "", line |-> 0]

\* random.randint(a, b) with b < a, called at the given line
EmptyRange(line) == [type |-> "ValueError", line |-> line]

\* Individual.__init__
NewIndividual(genes) ==
    [genes |-> genes, fitness |-> Infinity, placements |-> <<>>]

\* the identity of a new object: the least one no live object has
NewOid(h) == CHOOSE o \in 1..(Cardinality(DOMAIN h) + 1) : o \notin DOMAIN h

SeqRange(seq) == {seq[i] : i \in DOMAIN seq}

\* the objects still referenced from the frame of solve()
Collect(h, pop, new_pop, best) ==
    [o \in (SeqRange(pop) \cup SeqRange(new_pop) \cup ({best} \cap DOMAIN h))
        |-> h[o]]

\* config.update(upd)
UpdateConfig(cfg, upd) ==
    [k \in DOMAIN cfg |-> IF k \in DOMAIN upd THEN upd[k] ELSE cfg[k]]

\* SVGNester.__init__: no attribute original_parts yet (<<>>; <<the list>>
\* once set_parts has assigned it); part_quantities is keyed by part index
NewNester == [parts |-> <<>>, part_quantities |-> <<>>, original_parts |-> <<>>]

\* an SVGNester and its NestingSolver after __init__, before any call
Constructed ==
    /\ nester = NewNester
    /\ config = [population_size |-> DefaultPopulationSize,
                 mutation_rate |-> DefaultMutationRate,
                 rotations |-> DefaultRotations,
                 spacing |-> DefaultSpacing,
                 max_generations |-> DefaultMaxGenerations]
    /\ pc = "idle"
    /\ error = NoError
    /\ parts = <<>>
    /\ container = <<>>
    /\ heap = <<>>
    /\ population = <<>>
    /\ new_population = <<>>
    /\ best_individual = NoIndividual
    /\ best_fitness = Infinity
    /\ no_improvement_count = 0
    /\ generation = 0
    /\ result = <<>>
    /\ evaluated = {}

Init ==
    /\ Constructed
    /\ fn = ""
    /\ args = <<>>
    /\ locals = <<>>
    /\ ret = <<>>


(***************************************************************************)
(* solve()                                                                 *)
(***************************************************************************)
\* lines 88-91
ReturnValue(h, fitness, best) ==
    [fitness |-> fitness,
     placements |-> IF best # NoIndividual THEN h[best].placements ELSE <<>>]

\* where line 55 leads: into the body, or past the loop to the return
LoopHead(gen, cfg) ==
    IF gen < cfg.max_generations THEN "evaluate" ELSE "done"

\* SVGNester.configure: self.solver.config.update(config)
Configure(upd) ==
    /\ pc = "idle"
    /\ config' = UpdateConfig(config, upd)
    /\ UNCHANGED <<nester, call, pc, error, parts, container, heap, population,
                   new_population, best_individual, best_fitness,
                   no_improvement_count, generation, result, evaluated>>

\* solve(), lines 26-28: the call with nothing to place
SolveEmpty(ps, c) ==
    /\ pc = "idle"
    /\ Modelled(config, ps, c)
    /\ NothingToPlace(ps, c)
    /\ parts' = ps
    /\ container' = c
    /\ pc' = "done"
    /\ result' = <<[fitness |-> Infinity, placements |-> <<>>]>>
    /\ UNCHANGED <<nester, call, config, error, heap, population,
                   new_population, best_individual, best_fitness,
                   no_improvement_count, generation, evaluated>>

\* solve(), lines 26-39 and 51-53: the call up to the first pass of a loop
Solve(ps, c) ==
    /\ pc = "idle"
    /\ Modelled(config, ps, c)
    /\ ~ NothingToPlace(ps, c)
    /\ parts' = ps
    /\ container' = c
    /\ population' = <<>>
    /\ best_individual' = NoIndividual
    /\ best_fitness' = Infinity
    /\ no_improvement_count' = 0
    /\ generation' = 0
    /\ pc' = IF config.population_size >= 1 THEN "populate"
             ELSE LoopHead(0, config)
    /\ result' = IF pc' = "done"
                 THEN <<ReturnValue(heap, Infinity, NoIndividual)>>
                 ELSE result
    /\ UNCHANGED <<nester, call, config, error, heap, new_population,
                   evaluated>>

\* lines 41-49: one individual of the initial population.  rots[i] is the
\* draw of line 45 for part i, order the result of random.shuffle
CreateIndividual(rots, order) ==
    /\ pc = "populate"
    /\ config.rotations >= 1
    /\ LET genes == [k \in DOMAIN parts |->
                        [id |-> order[k] - 1, rotation |-> rots[order[k]]]]
           oid == NewOid(heap)
       IN  /\ heap' = [o \in DOMAIN heap \cup {oid} |->
                          IF o = oid THEN NewIndividual(genes) ELSE heap[o]]
           /\ population' = Append(population, oid)
    /\ pc' = IF Len(population') < config.population_size THEN "populate"
             ELSE LoopHead(0, config)
    /\ result' = IF pc' = "done"
                 THEN <<ReturnValue(heap', best_fitness, best_individual)>>
                 ELSE result
    /\ UNCHANGED <<nester, call, config, error, parts, container,
                   new_population, best_individual, best_fitness,
                   no_improvement_count, generation, evaluated>>

\* line 45 with no rotation variant: random.randint(0, -1) raises
CreateIndividualRaises ==
    /\ pc = "populate"
    /\ config.rotations < 1
    /\ pc' = "raised"
    /\ error' = EmptyRange(45)
    /\ UNCHANGED <<nester, call, config, parts, container, heap, population,
                   new_population, best_individual, best_fitness,
                   no_improvement_count, generation, result, evaluated>>

\* lines 59-68 with line 65 run only while best_individual is None
TrackKeepsFirstBest(st, oid, ev) ==
    [heap |-> [st.heap EXCEPT ![oid].fitness = ev.fitness,
                              ![oid].placements = ev.placements],
     best_fitness |-> IF ev.fitness < st.best_fitness THEN ev.fitness
                      ELSE st.best_fitness,
     best_individual |-> IF ev.fitness < st.best_fitness
                            /\ st.best_individual = 0
                         THEN oid
                         ELSE st.best_individual,
     no_improvement_count |-> IF ev.fitness < st.best_fitness THEN 0
                              ELSE st.no_improvement_count,
     generation_best |-> Min2(st.generation_best, ev.fitness),
     evaluated |-> st.evaluated \cup {ev.fitness}]

\* lines 59-68: the locals after individual oid was evaluated to ev
Track(st, oid, ev) ==
    [heap |-> [st.heap EXCEPT ![oid].fitness = ev.fitness,
                              ![oid].placements = ev.placements],
     best_fitness |-> IF ev.fitness < st.best_fitness THEN ev.fitness
                      ELSE st.best_fitness,
     best_individual |-> IF ev.fitness < st.best_fitness THEN oid
                         ELSE st.best_individual,
     no_improvement_count |-> IF ev.fitness < st.best_fitness THEN 0
                              ELSE st.no_improvement_count,
     generation_best |-> Min2(st.generation_best, ev.fitness),
     evaluated |-> st.evaluated \cup {ev.fitness}]

\* lines 58-68 from individual i of the population on; st holds the locals
RECURSIVE EvaluatePopulation(_, _)
EvaluatePopulation(i, st) ==
    IF i > Len(population) THEN st
    ELSE EvaluatePopulation(i + 1,
            Track(st, population[i],
                  EvaluateFitness(st.heap[population[i]].genes,
                                  PreparedParts(parts, config.rotations),
                                  container)))

\* the locals after the loop of lines 58-68
AfterEvaluation ==
    EvaluatePopulation(1,
        [heap |-> heap,
         best_fitness |-> best_fitness,
         best_individual |-> best_individual,
         no_improvement_count |-> no_improvement_count,
         generation_best |-> Infinity,
         evaluated |-> evaluated])

\* lines 71-72
CountAfter(st) ==
    IF st.generation_best >= st.best_fitness
    THEN st.no_improvement_count + 1
    ELSE st.no_improvement_count

\* lines 71-74: whether the generation ends in the break
Stagnated(st) ==
    /\ st.generation_best >= st.best_fitness
    /\ CountAfter(st) >= Patience

\* lines 76-86 when the generation goes on: sorted is the population after
\* line 76, survivors the new_population of line 77; line 86 follows at once
\* when the loop of line 79 has nothing to refill
Select(st, sorted, survivors) ==
    /\ new_population' = survivors
    /\ IF Len(survivors) >= config.population_size
       THEN /\ population' = survivors
            /\ generation' = generation + 1
            /\ pc' = LoopHead(generation + 1, config)
       ELSE /\ population' = sorted
            /\ generation' = generation
            /\ pc' = "refill"
    /\ heap' = Collect(st.heap, population', survivors, st.best_individual)
    /\ result' = IF pc' = "done"
                 THEN <<ReturnValue(st.heap, st.best_fitness,
                                    st.best_individual)>>
                 ELSE result

\* lines 70-77 with the locals st of the evaluation loop
EndGeneration(st, sorted) ==
    /\ best_fitness' = st.best_fitness
    /\ best_individual' = st.best_individual
    /\ no_improvement_count' = CountAfter(st)
    /\ evaluated' = st.evaluated
    /\ IF Stagnated(st)
       THEN /\ pc' = "done"
            /\ heap' = st.heap
            /\ result' = <<ReturnValue(st.heap, st.best_fitness,
                                       st.best_individual)>>
            /\ UNCHANGED <<population, new_population, generation>>
       ELSE Select(st, sorted,
                   PyPrefix(sorted, config.population_size \div 2))

\* lines 56-77 of one generation
SortAndEnd(st) == EndGeneration(st, SortByFitness(population, st.heap))

EvaluateGeneration ==
    /\ pc = "evaluate"
    /\ SortAndEnd(AfterEvaluation)
    /\ UNCHANGED <<nester, call, config, error, parts, container>>

\* lines 80-84 of one pass of the refill loop, and line 86 after the last:
\* p1 and p2 are the draws of random.choice (0-based positions in
\* population[:5]), cut the draw of line 168, draw and ij those of _mutate
Breed(p1, p2, cut, draw, ij) ==
    /\ pc = "refill"
    /\ LET pool == PyPrefix(population, ParentPool)
       IN  /\ p1 \in 0..(Len(pool) - 1)
           /\ p2 \in 0..(Len(pool) - 1)
           /\ LET genes1 == heap[pool[p1 + 1]].genes
                  genes2 == heap[pool[p2 + 1]].genes
                  oid == NewOid(heap)
              IN  /\ cut \in CutPoints(Len(genes1))
                  /\ ij \in SamplePairs(Len(genes1))
                  /\ LET child == Mutate(Crossover(genes1, genes2, cut),
                                         config.mutation_rate, draw,
                                         ij[1], ij[2])
                         grown == [o \in DOMAIN heap \cup {oid} |->
                                      IF o = oid THEN NewIndividual(child)
                                      ELSE heap[o]]
                         refilled == Append(new_population, oid)
                         full == Len(refilled) >= config.population_size
                     IN  /\ new_population' = refilled
                         /\ population' = IF full THEN refilled ELSE population
                         /\ generation' = IF full THEN generation + 1
                                          ELSE generation
                         /\ pc' = IF full
                                  THEN LoopHead(generation + 1, config)
                                  ELSE "refill"
                         /\ heap' = Collect(grown, population', refilled,
                                            best_individual)
                         /\ result' = IF pc' = "done"
                                      THEN <<ReturnValue(grown, best_fitness,
                                                         best_individual)>>
                                      ELSE result
    /\ UNCHANGED <<nester, call, config, error, parts, container,
                   best_individual, best_fitness, no_improvement_count,
                   evaluated>>

\* line 168 with parents of one gene: random.randint(1, 0) raises
BreedRaises ==
    /\ pc = "refill"
    /\ \E p1 \in 0..(Len(PyPrefix(population, ParentPool)) - 1) :
          CutPoints(Len(heap[population[p1 + 1]].genes)) = {}
    /\ pc' = "raised"
    /\ error' = EmptyRange(168)
    /\ UNCHANGED <<nester, call, config, parts, container, heap, population,
                   new_population, best_individual, best_fitness,
                   no_improvement_count, generation, result, evaluated>>

Next ==
    \/ \E upd \in ConfigUpdates : Configure(upd)
    \/ \E ps \in PartLists, c \in Containers : SolveEmpty(ps, c)
    \/ \E ps \in PartLists, c \in Containers : Solve(ps, c)
    \/ \E rots \in [DOMAIN parts -> 0..(config.rotations - 1)],
          order \in ShuffleOrders(Len(parts)) : CreateIndividual(rots, order)
    \/ CreateIndividualRaises
    \/ EvaluateGeneration
    \/ \E p1, p2 \in 0..(ParentPool - 1), cut \in 1..Len(parts),
          draw \in DrawSet(config.mutation_rate),
          ij \in (0..Len(parts)) \X (0..Len(parts)) :
          Breed(p1, p2, cut, draw, ij)
    \/ BreedRaises

Spec == Init /\ [][Next]_vars

(***************************************************************************)
(* Direct calls of the functions of the kernel and of the NFP calculator   *)
(***************************************************************************)
\* the coordinates of the points a direct call is made with
Coords == 0..2

GridPoints == {Point(px, py) : px \in Coords, py \in Coords}

\* the lists of at most n points
Polygons(n) == UNION {[1..k -> GridPoints] : k \in 0..n}

\* tolerance arguments: left out, 0, 1 and 2
Tolerances == {None} \cup {[num |-> t, den |-> 1] : t \in 0..2}

\* the calls of simplify_nfp
SimplifyNfpCalls == Polygons(MaxPoints) \X Tolerances

\* regions of area 0, 1/2 and 4, the last two in both orientations
Regions ==
    {<<>>,
     <<Point(0, 0), Point(1, 0), Point(2, 0)>>,
     <<Point(0, 0), Point(1, 0), Point(0, 1)>>,
     <<Point(0, 1), Point(1, 0), Point(0, 0)>>,
     <<Point(0, 0), Point(2, 0), Point(2, 2), Point(0, 2)>>,
     <<Point(0, 2), Point(2, 2), Point(2, 0), Point(0, 0)>>}

\* the calls of nfp_intersect: a region and a list of points, in both orders
NfpIntersectCalls ==
    (Polygons(MaxPoints - 1) \X Regions)
        \cup (Regions \X Polygons(MaxPoints - 1))

\* moving polygons: too short, counter-clockwise, the same points clockwise
\* from the same first point, and without area
Movers ==
    {<<Point(0, 0), Point(1, 0)>>,
     <<Point(1, 0), Point(2, 1), Point(0, 2)>>,
     <<Point(1, 0), Point(0, 2), Point(2, 1)>>,
     <<Point(0, 0), Point(1, 0), Point(2, 0)>>}

\* the calls of calculate_nfp
CalculateNfpCalls == Polygons(MaxPoints) \X Movers

\* one call is made: its function and its arguments
CallInit ==
    /\ Constructed
    /\ locals = <<>>
    /\ ret = <<>>
    /\ \/ fn = "simplify_nfp" /\ args \in SimplifyNfpCalls
       \/ fn = "nfp_intersect" /\ args \in NfpIntersectCalls
       \/ fn = "calculate_nfp" /\ args \in CalculateNfpCalls

\* NFPCalculator.simplify_nfp(nfp, tolerance) returns
SimplifyNfpReturns ==
    /\ fn = "simplify_nfp"
    /\ ret = <<>>
    /\ ret' = <<SimplifyNfp(args[1], args[2])>>
    /\ UNCHANGED <<nester, fn, args, locals, solver>>

\* NFPCalculator.nfp_intersect(nfp1, nfp2) returns
NfpIntersectReturns ==
    /\ fn = "nfp_intersect"
    /\ ret = <<>>
    /\ ret' = <<NfpIntersect(args[1], args[2])>>
    /\ UNCHANGED <<nester, fn, args, locals, solver>>

\* NFPCalculator.calculate_nfp(stationary, moving) returns
CalculateNfpReturns ==
    /\ fn = "calculate_nfp"
    /\ ret = <<>>
    /\ ret' = <<CalculateNfp(args[1], args[2])>>
    /\ UNCHANGED <<nester, fn, args, locals, solver>>

NextCall ==
    \/ SimplifyNfpReturns
    \/ NfpIntersectReturns
    \/ CalculateNfpReturns

SpecCalls == CallInit /\ [][NextCall]_vars

\* the calls of point_in_polygon
PointInPolygonCalls == GridPoints \X Polygons(MaxPoints)

\* the calls of polygon_area
PolygonAreaCalls == {<<polygon>> : polygon \in Polygons(MaxPoints)}

\* one call of a function of geometry_util is made
KernelInit ==
    /\ Constructed
    /\ locals = <<>>
    /\ ret = <<>>
    /\ \/ fn = "point_in_polygon" /\ args \in PointInPolygonCalls
       \/ fn = "polygon_area" /\ args \in PolygonAreaCalls

\* point_in_polygon(point, polygon) returns or raises
PointInPolygonReturns ==
    /\ fn = "point_in_polygon"
    /\ ret = <<>>
    /\ ret' = <<PointInPolygon(args[1], args[2])>>
    /\ UNCHANGED <<nester, fn, args, locals, solver>>

\* polygon_area(polygon) returns; ret holds twice the area
PolygonAreaReturns ==
    /\ fn = "polygon_area"
    /\ ret = <<>>
    /\ ret' = <<PolygonAreaTimes2(args[1])>>
    /\ UNCHANGED <<nester, fn, args, locals, solver>>

NextKernel ==
    \/ PointInPolygonReturns
    \/ PolygonAreaReturns

SpecKernel == KernelInit /\ [][NextKernel]_vars

\* squares whose side is the sheet's, and a side whose quarter is no integer
Square100 == Rect(0, 0, 100, 100)

Square90 == Rect(0, 0, 90, 90)

\* the polygons _find_position is asked to place
Shapes == {Square10, Square60, Bar120, Kite, Diamond20, Square90, Square100}

\* where the parts already placed lie
Offsets == {0, 20, 40, 60}

\* the entries of placed: _find_position reads their 'polygon' only
PlacedParts ==
    {[polygon |-> TranslatePolygon(shape, x, y)] :
        shape \in {Square10, Square60, Kite}, x \in Offsets, y \in Offsets}

\* placed: nothing yet, or one part
PlacedLists == {<<>>} \cup {<<part>> : part \in PlacedParts}

\* container_bounds: the bounds of a 100 x 100 and of a 200 x 200 sheet
ContainerBounds ==
    {GetPolygonBounds(Square100), GetPolygonBounds(Rect(0, 0, 200, 200))}

\* the calls of _find_position
FindPositionCalls == Shapes \X PlacedLists \X ContainerBounds

\* one call of NestingSolver._find_position is made
PlacerInit ==
    /\ Constructed
    /\ locals = <<>>
    /\ ret = <<>>
    /\ fn = "_find_position"
    /\ args \in FindPositionCalls

\* _find_position, lines 126-129: poly_bounds and step_size are assigned
FindPositionMeasures ==
    /\ fn = "_find_position"
    /\ locals = <<>>
    /\ ret = <<>>
    /\ locals' = [poly_bounds |-> GetPolygonBounds(args[1]),
                  step_size |-> StepSize(GetPolygonBounds(args[1]))]
    /\ UNCHANGED <<nester, fn, args, ret, solver>>

\* _find_position, lines 132-158: the scan of the grid, and the return
FindPositionReturns ==
    /\ fn = "_find_position"
    /\ locals # <<>>
    /\ ret = <<>>
    /\ ret' = <<GridScan(args[1], args[2], args[3], locals.poly_bounds)>>
    /\ UNCHANGED <<nester, fn, args, locals, solver>>

NextPlacer ==
    \/ FindPositionMeasures
    \/ FindPositionReturns

SpecPlacer == PlacerInit /\ [][NextPlacer]_vars

\* the genes an individual passed to _mutate is made of
Genes == {[id |-> id, rotation |-> rotation] : id \in 0..2, rotation \in 0..1}

\* the gene sequences: a crossover leaves any ids in any order
GeneLists == UNION {[1..n -> Genes] : n \in 0..MaxGenes}

\* config['mutation_rate']: never, the default, always, and beyond 100
MutationRates == {0, DefaultMutationRate, 100, 150}

\* one call of NestingSolver._mutate is made, as line 83 makes it: with a
\* child (identity 2) fresh from _crossover, here of a parent (identity 1)
\* with itself, so that both hold the same genes in lists of their own
MutateInit ==
    /\ \E rate \in MutationRates :
          config = [population_size |-> DefaultPopulationSize,
                    mutation_rate |-> rate,
                    rotations |-> DefaultRotations,
                    spacing |-> DefaultSpacing,
                    max_generations |-> DefaultMaxGenerations]
    /\ \E genes \in GeneLists :
          heap = <<NewIndividual(genes), NewIndividual(genes)>>
    /\ pc = "idle"
    /\ error = NoError
    /\ parts = <<>>
    /\ container = <<>>
    /\ population = <<>>
    /\ new_population = <<>>
    /\ best_individual = NoIndividual
    /\ best_fitness = Infinity
    /\ no_improvement_count = 0
    /\ generation = 0
    /\ result = <<>>
    /\ evaluated = {}
    /\ nester = NewNester
    /\ fn = "_mutate"
    /\ args = <<2>>
    /\ locals = <<>>
    /\ ret = <<>>

\* what _mutate leaves of the heap: the individual's own list is changed
MutatedHeap(draw, i, j) ==
    [heap EXCEPT ![args[1]].genes =
        Mutate(heap[args[1]].genes, config.mutation_rate, draw, i, j)]

\* _mutate, lines 174-178 when both tests pass: draw is random.randint(1,
\* 100), ij is random.sample(range(len(genes)), 2)
MutateSwaps(draw, ij) ==
    /\ fn = "_mutate"
    /\ ret = <<>>
    /\ draw <= config.mutation_rate
    /\ Len(heap[args[1]].genes) > 1
    /\ ij \in SamplePairs(Len(heap[args[1]].genes))
    /\ locals' = [draw |-> draw, i |-> ij[1], j |-> ij[2]]
    /\ heap' = MutatedHeap(draw, ij[1], ij[2])
    /\ ret' = <<args[1]>>
    /\ UNCHANGED <<nester, fn, args, config, pc, error, parts, container,
                   population, new_population, best_individual, best_fitness,
                   no_improvement_count, generation, result, evaluated>>

\* _mutate, lines 174, 175 and 178 when a test fails: nothing is sampled
MutateKeeps(draw) ==
    /\ fn = "_mutate"
    /\ ret = <<>>
    /\ ~ (draw <= config.mutation_rate /\ Len(heap[args[1]].genes) > 1)
    /\ locals' = [draw |-> draw]
    /\ heap' = MutatedHeap(draw, 0, 0)
    /\ ret' = <<args[1]>>
    /\ UNCHANGED <<nester, fn, args, config, pc, error, parts, container,
                   population, new_population, best_individual, best_fitness,
                   no_improvement_count, generation, result, evaluated>>

\* the draws of line 174: the least, and those of DrawSet
MutateDraws(mutation_rate) == {1} \cup DrawSet(mutation_rate)

NextMutate ==
    \/ \E draw \in MutateDraws(config.mutation_rate),
          ij \in (0..(MaxGenes - 1)) \X (0..(MaxGenes - 1)) :
          MutateSwaps(draw, ij)
    \/ \E draw \in MutateDraws(config.mutation_rate) : MutateKeeps(draw)

SpecMutate == MutateInit /\ [][NextMutate]_vars


(***************************************************************************)
(* svg_nester.py: set_parts and duplicate_part                             *)
(***************************************************************************)
\* the parts argument of set_parts: the points of each Polygon
NesterPartLists == {<<>>, <<Square10>>, <<Square10, Kite>>}

\* the quantities argument of set_parts: None, an int, or a list, which a
\* parts list of another length finds too short or too long
QuantityArgs ==
    {[kind |-> "None", list |-> <<>>]}
        \cup {[kind |-> "int", list |-> <<q>>] : q \in 0..MaxQuantity}
        \cup {[kind |-> "list", list |-> qs] :
                 qs \in UNION {[1..n -> 0..MaxQuantity] : n \in 0..2}}

\* lines 237-240: the list quantities stands for
Quantities(ps, qs) ==
    IF qs.kind = "None" THEN [i \in 1..Len(ps) |-> 1]
    ELSE IF qs.kind = "int" THEN [i \in 1..Len(ps) |-> qs.list[1]]
    ELSE qs.list

\* lines 252-255 and 279-282: a new Polygon with its three attributes
NewPart(points, id, original_id, copy_number) ==
    [points |-> points, id |-> id, original_id |-> original_id,
     copy_number |-> copy_number]

\* the loops of lines 251-256 and 278-283: one instance appended to
\* instances for each copy number, its id the length of the list so far
RECURSIVE Copies(_, _, _, _)
Copies(instances, points, original_id, copy_numbers) ==
    IF copy_numbers = <<>> THEN instances
    ELSE Copies(Append(instances,
                       NewPart(points, Len(instances), original_id,
                               Head(copy_numbers))),
                points, original_id, Tail(copy_numbers))

\* the loop of lines 249-256 from part i (1-based) on
RECURSIVE Expand(_, _, _, _)
Expand(ps, quantities, i, instances) ==
    IF i > Len(ps) THEN instances
    ELSE Expand(ps, quantities, i + 1,
                Copies(instances, ps[i], i - 1,
                       PyRange(0, quantities[i], 1)))

\* set_parts(parts, quantities): raises at line 243, or rebuilds the lists
SetParts(ps, qs) ==
    /\ fn' = "set_parts"
    /\ args' = <<ps, qs>>
    /\ IF Len(Quantities(ps, qs)) # Len(ps)
       THEN /\ ret' = <<Raised("ValueError")>>
            /\ nester' = nester
       ELSE /\ ret' = <<Returned(None)>>
            /\ nester' =
                  [parts |-> Expand(ps, Quantities(ps, qs), 1, <<>>),
                   part_quantities |->
                       [i \in 0..(Len(ps) - 1) |-> Quantities(ps, qs)[i + 1]],
                   original_parts |-> <<ps>>]
    /\ UNCHANGED <<locals, solver>>

\* self.part_quantities.get(part_index, 0)
GetQuantity(part_quantities, part_index) ==
    IF part_index \in DOMAIN part_quantities
    THEN part_quantities[part_index]
    ELSE 0

\* range(additional_copies) in the place of line 278: copy numbers from 0
DuplicateCopyNumbersFromZero(current_quantity, additional_copies) ==
    PyRange(0, additional_copies, 1)

\* line 278: range(current_quantity, current_quantity + additional_copies)
DuplicateCopyNumbers(current_quantity, additional_copies) ==
    PyRange(current_quantity, current_quantity + additional_copies, 1)

\* lines 275-285
Duplicated(part_index, additional_copies) ==
    LET current_quantity == GetQuantity(nester.part_quantities, part_index)
    IN  [nester EXCEPT
            !.parts = Copies(nester.parts,
                             nester.original_parts[1][part_index + 1],
                             part_index,
                             DuplicateCopyNumbers(current_quantity,
                                                  additional_copies)),
            !.part_quantities =
                [k \in DOMAIN nester.part_quantities \cup {part_index} |->
                    IF k = part_index
                    THEN current_quantity + additional_copies
                    ELSE nester.part_quantities[k]]]

\* duplicate_part(part_index, additional_copies): line 272 raises
\* AttributeError before the first set_parts and ValueError for an index
\* past the end; the instance list is followed up to MaxInstances
DuplicatePart(part_index, additional_copies) ==
    /\ Len(nester.parts) + additional_copies <= MaxInstances
    /\ fn' = "duplicate_part"
    /\ args' = <<part_index, additional_copies>>
    /\ IF nester.original_parts = <<>>
       THEN /\ ret' = <<Raised("AttributeError")>>
            /\ nester' = nester
       ELSE IF part_index >= Len(nester.original_parts[1])
            THEN /\ ret' = <<Raised("ValueError")>>
                 /\ nester' = nester
            ELSE /\ ret' = <<Returned(None)>>
                 /\ nester' = Duplicated(part_index, additional_copies)
    /\ UNCHANGED <<locals, solver>>

NextNester ==
    \/ \E ps \in NesterPartLists, qs \in QuantityArgs : SetParts(ps, qs)
    \/ \E part_index \in 0..2, additional_copies \in 0..MaxQuantity :
          DuplicatePart(part_index, additional_copies)

SpecNester == Init /\ [][NextNester]_vars


(***************************************************************************)
(* Properties                                                              *)
(***************************************************************************)
Sheet100 == Rect(0, 0, 100, 100)

\* the lists of placements the run holds: those of every individual, and
\* those returned
PlacementLists ==
    {heap[o].placements : o \in DOMAIN heap}
        \cup {result[i].placements : i \in DOMAIN result}

XsOf(polygon) == {polygon[i].x : i \in DOMAIN polygon}

YsOf(polygon) == {polygon[i].y : i \in DOMAIN polygon}

\* the bounding boxes of two polygons share a region of positive area
PositiveOverlap(p, q) ==
    /\ Max2(SetMin(XsOf(p)), SetMin(XsOf(q)))
          < Min2(SetMax(XsOf(p)), SetMax(XsOf(q)))
    /\ Max2(SetMin(YsOf(p)), SetMin(YsOf(q)))
          < Min2(SetMax(YsOf(p)), SetMax(YsOf(q)))

\* the area of the box around all points of the placements
EnclosingArea(placements) ==
    LET xs == UNION {XsOf(placements[k].polygon) : k \in DOMAIN placements}
        ys == UNION {YsOf(placements[k].polygon) : k \in DOMAIN placements}
    IN  (SetMax(xs) - SetMin(xs)) * (SetMax(ys) - SetMin(ys))

\* C1: the single-part scenario (one 10 x 10 square, a 100 x 100 sheet, one
\* rotation variant, population_size 4, max_generations 5) never raises, and
\* returns exactly one placement, at x = 0 and y = 0, with fitness 100.
C1_SinglePartScenario ==
    (/\ parts = <<Square10>>
     /\ container = Sheet100
     /\ config.rotations = 1
     /\ config.population_size = 4
     /\ config.max_generations = 5)
        => /\ pc # "raised"
           /\ pc = "done" =>
                 /\ result[1].fitness = 100
                 /\ Len(result[1].placements) = 1
                 /\ result[1].placements[1].x = 0
                 /\ result[1].placements[1].y = 0

\* C2: in every individual, and in the placements returned, no two
\* placements have bounding boxes that overlap with positive area.
C2_NoOverlap ==
    \A pl \in PlacementLists :
        \A a, b \in DOMAIN pl :
            a < b => ~ PositiveOverlap(pl[a].polygon, pl[b].polygon)

\* an individual with two placements whose boxes share an edge
C2_Witness ==
    \E pl \in PlacementLists :
        /\ Len(pl) = 2
        /\ SetMax(XsOf(pl[1].polygon)) = SetMin(XsOf(pl[2].polygon))
        /\ SetMin(YsOf(pl[1].polygon)) = SetMin(YsOf(pl[2].polygon))

\* C3: every point of every placed polygon lies within the bounding box of
\* the container, on all four sides.
C3_InsideContainer ==
    \A pl \in PlacementLists :
        \A k \in DOMAIN pl :
            \A i \in DOMAIN pl[k].polygon :
                /\ pl[k].polygon[i].x >= SetMin(XsOf(container))
                /\ pl[k].polygon[i].x <= SetMax(XsOf(container))
                /\ pl[k].polygon[i].y >= SetMin(YsOf(container))
                /\ pl[k].polygon[i].y <= SetMax(YsOf(container))

\* a placement of a variant turned by 180 degrees, whose points before the
\* translation are left of and below the origin
C3_Witness ==
    \E pl \in PlacementLists :
        \E k \in DOMAIN pl :
            /\ pl[k].rotation = 180
            /\ pl[k].x > 0
            /\ pl[k].y > 0

\* C4: a call with no parts or with an empty container returns fitness
\* +infinity and no placements; it raises nothing, builds no individual and
\* runs no generation.
C4_EmptyInputSentinel ==
    (parts = <<>> \/ container = <<>>)
        => /\ pc \in {"idle", "done"}
           /\ pc = "done" =>
                 result = <<[fitness |-> Infinity, placements |-> <<>>]>>
           /\ error = NoError
           /\ DOMAIN heap = {}
           /\ evaluated = {}
           /\ generation = 0

\* a call with parts and an empty container has returned
C4_Witness ==
    /\ pc = "done"
    /\ parts # <<>>
    /\ container = <<>>
    /\ result # <<>>

\* C5: with an invalid configuration a call that has something to place
\* evaluates no generation and returns no result.
C5_InvalidConfigFailsFast ==
    (parts # <<>> /\ container # <<>> /\ ~ ValidConfig(config))
        => pc \notin {"refill", "done"}

MinFitness(S) == IF S = {} THEN Infinity ELSE SetMin(S)

\* C6: best_fitness is the least fitness evaluated so far; the fitness
\* returned is the least fitness of all individuals evaluated, and the
\* placements returned enclose exactly that area, or are empty when it is
\* +infinity.
C6_ReturnsBestEver ==
    /\ best_fitness = MinFitness(evaluated)
    /\ (pc = "done" /\ parts # <<>> /\ container # <<>>) =>
          /\ result[1].fitness = MinFitness(evaluated)
          /\ IF result[1].fitness = Infinity
             THEN result[1].placements = <<>>
             ELSE /\ result[1].placements # <<>>
                  /\ EnclosingArea(result[1].placements) = result[1].fitness

\* a run that returned after three fitness values were seen, the best of
\* them not in the first generation
C6_Witness ==
    /\ pc = "done"
    /\ Cardinality(evaluated) >= 3
    /\ result[1].fitness < Infinity
    /\ generation >= 2
    /\ no_improvement_count = 1

\* individuals whose fitness and placements are those of their genes
EvaluatedIndividuals ==
    (IF pc = "refill" THEN SeqRange(population) ELSE {})
        \cup ({best_individual} \cap DOMAIN heap)

\* the rotation variant a gene names
VariantOf(gene) ==
    [angle |-> RotationAngle(config.rotations, gene.rotation),
     polygon |-> RotatePolygon(parts[gene.id + 1],
                               RotationAngle(config.rotations, gene.rotation))]

\* the strictly increasing maps from 1..m into 1..n
IncreasingMaps(m, n) ==
    {f \in [1..m -> 1..n] : \A a, b \in 1..m : a < b => f[a] < f[b]}

\* placement j belongs to gene k and lies where the scan puts the gene's
\* variant among the placements before it
PlacementOfGene(placements, j, gene) ==
    LET position == FindPosition(VariantOf(gene).polygon,
                                 SubSeq(placements, 1, j - 1),
                                 GetPolygonBounds(container))
    IN  /\ position.found
        /\ placements[j] =
              [id |-> gene.id, x |-> position.x, y |-> position.y,
               rotation |-> VariantOf(gene).angle,
               polygon |-> TranslatePolygon(VariantOf(gene).polygon,
                                            position.x, position.y)]

\* gene k, left out, had no position among the placements of the genes
\* before it
GeneHadNoPosition(placements, f, k, gene) ==
    ~ FindPosition(VariantOf(gene).polygon,
                   SubSeq(placements, 1,
                          Cardinality({j \in DOMAIN f : f[j] < k})),
                   GetPolygonBounds(container)).found

\* C7: an evaluated individual's fitness is width times height of the box
\* around all points of its placements, and +infinity with no placements
\* exactly when no gene found a position; a gene without a position is left
\* out and the genes after it are still placed, in gene order.
C7_FitnessOfPlacements ==
    \A o \in EvaluatedIndividuals :
        /\ heap[o].fitness = IF heap[o].placements = <<>> THEN Infinity
                             ELSE EnclosingArea(heap[o].placements)
        /\ \E f \in IncreasingMaps(Len(heap[o].placements),
                                   Len(heap[o].genes)) :
              /\ \A j \in DOMAIN f :
                    PlacementOfGene(heap[o].placements, j,
                                    heap[o].genes[f[j]])
              /\ \A k \in DOMAIN heap[o].genes :
                    (\A j \in DOMAIN f : f[j] # k) =>
                        GeneHadNoPosition(heap[o].placements, f, k,
                                          heap[o].genes[k])

\* an evaluated individual whose first gene found no position and whose
\* second gene was placed
C7_Witness ==
    \E o \in EvaluatedIndividuals :
        /\ Len(heap[o].genes) = 2
        /\ Len(heap[o].placements) = 1
        /\ heap[o].placements[1].id = heap[o].genes[2].id
        /\ heap[o].genes[1].id # heap[o].genes[2].id
        /\ heap[o].fitness < Infinity

\* C9: _crossover never raises, and every individual has one gene for each
\* part.
C9_CrossoverReturnsChild ==
    /\ error # EmptyRange(168)
    /\ \A o \in DOMAIN heap : Len(heap[o].genes) = Len(parts)

\* C10: a call with a valid configuration and something to place ends by
\* returning, after at most max_generations generations, and after fewer
\* only when the stagnation counter reached its limit; no generation holds
\* more than population_size individuals.
C10_EndsByLimitOrStagnation ==
    (parts # <<>> /\ container # <<>> /\ ValidConfig(config))
        => /\ generation <= config.max_generations
           /\ Len(population) <= config.population_size
           /\ Len(new_population) <= config.population_size
           /\ pc # "raised"
           /\ (pc = "done" /\ generation < config.max_generations)
                 => no_improvement_count >= Patience

\* the positions of nfp whose point is not within the tolerance of the line
\* through its two neighbours
KeptPositions(nfp, tolerance) ==
    {i \in DOMAIN nfp :
        ~ PointOnLine(nfp[IF i = 1 THEN Len(nfp) ELSE i - 1],
                      nfp[(i % Len(nfp)) + 1], nfp[i],
                      IF tolerance = None THEN NfpTolerance ELSE tolerance)}

\* C11: simplify_nfp returns at least 3 points for every input and every
\* tolerance, and it returns the input itself when the pruning would leave
\* fewer than 3 points.
C11_SimplifyKeepsThreePoints ==
    (fn = "simplify_nfp" /\ ret # <<>>)
        => /\ Len(ret[1]) >= 3
           /\ Cardinality(KeptPositions(args[1], args[2])) < 3
                 => ret[1] = args[1]

\* C12: nfp_intersect returns the one of its two arguments that encloses
\* the smaller absolute area, and it returns nothing exactly when both
\* enclose none.
C12_IntersectReturnsSmaller ==
    (fn = "nfp_intersect" /\ ret # <<>>)
        => /\ ret[1] = <<>> <=>
                 /\ PolygonAreaTimes2(args[1]) = 0
                 /\ PolygonAreaTimes2(args[2]) = 0
           /\ ret[1] # <<>> =>
                 \E k \in 1..2 :
                    /\ ret[1] = <<args[k]>>
                    /\ Abs(PolygonAreaTimes2(args[k]))
                          <= Abs(PolygonAreaTimes2(args[3 - k]))

\* the point a stationary point gives when offset by the first point of
\* the moving polygon the caller passed
OffsetByFirst(point, moving) ==
    Point(point.x - moving[1].x, point.y - moving[1].y)

\* C13: for polygons of 3 or more points the points calculate_nfp returns
\* are the points of the stationary polygon offset by the first point of the
\* moving polygon as it was passed, whichever way round it was given.
C13_OffsetByPassedFirstPoint ==
    (/\ fn = "calculate_nfp"
     /\ ret # <<>>
     /\ Len(args[1]) >= 3
     /\ Len(args[2]) >= 3
     /\ ret[1] # <<>>)
        => {ret[1][1][k] : k \in DOMAIN ret[1][1]}
              = {OffsetByFirst(args[1][i], args[2]) : i \in DOMAIN args[1]}

\* C14: calculate_nfp returns nothing when one of its arguments has fewer
\* than 3 points or when the points left after the removal of duplicates
\* are fewer than 3 distinct ones; what it returns otherwise is one region
\* of at least 3 distinct points.
C14_EmptyOrThreeDistinct ==
    (fn = "calculate_nfp" /\ ret # <<>>)
        => /\ (Len(args[1]) < 3 \/ Len(args[2]) < 3) => ret[1] = <<>>
           /\ Cardinality({args[1][i] : i \in DOMAIN args[1]}) < 3
                 => ret[1] = <<>>
           /\ ret[1] # <<>> =>
                 /\ Len(ret[1]) = 1
                 /\ Cardinality({ret[1][1][k] : k \in DOMAIN ret[1][1]}) >= 3

\* twice the signed area of the triangle a, b, p: positive when p is to
\* the left of the line from a to b
Turn(a, b, p) == (b.x - a.x) * (p.y - a.y) - (b.y - a.y) * (p.x - a.x)

\* the point after position i of a closed polygon
After(polygon, i) == polygon[(i % Len(polygon)) + 1]

\* every point of the polygon other than the two of an edge is strictly on
\* side s of that edge: the polygon is convex, with s = 1 counter-clockwise
ConvexOnSide(polygon, s) ==
    /\ Len(polygon) >= 3
    /\ \A i, k \in DOMAIN polygon :
          (k # i /\ k # (i % Len(polygon)) + 1)
              => s * Turn(polygon[i], After(polygon, i), polygon[k]) > 0

StrictlyInside(p, polygon, s) ==
    \A i \in DOMAIN polygon :
        s * Turn(polygon[i], After(polygon, i), p) > 0

StrictlyOutside(p, polygon, s) ==
    \E i \in DOMAIN polygon :
        s * Turn(polygon[i], After(polygon, i), p) < 0

\* C15: point_in_polygon raises nothing, whatever the point and the polygon;
\* it returns false for a polygon of fewer than 3 points, true for a point
\* strictly inside a convex polygon and false for one strictly outside it.
C15_PointInPolygonTotal ==
    (fn = "point_in_polygon" /\ ret # <<>>)
        => /\ ret[1].raised = ""
           /\ Len(args[2]) < 3 => ~ ret[1].value
           /\ \A s \in {-1, 1} :
                 ConvexOnSide(args[2], s) =>
                    /\ StrictlyInside(args[1], args[2], s) => ret[1].value
                    /\ StrictlyOutside(args[1], args[2], s) => ~ ret[1].value

\* the point (1, 1) strictly inside the square of side 2, whose edges from
\* (0, 0) to (2, 0) and from (2, 2) to (0, 2) are horizontal
C15_Witness ==
    /\ fn = "point_in_polygon"
    /\ ret # <<>>
    /\ args = <<Point(1, 1),
                <<Point(0, 0), Point(2, 0), Point(2, 2), Point(0, 2)>>>>
    /\ ret[1].value

\* the distances a polygon is moved by
Shifts == -2..2

\* C16: polygon_area of the points in reverse order is the negated area;
\* the area of the points all moved by the same (dx, dy) is the same area;
\* the area of fewer than 3 points is 0.
C16_SignedArea ==
    (fn = "polygon_area" /\ ret # <<>>)
        => /\ PolygonAreaTimes2(Reversed(args[1])) = - ret[1]
           /\ \A dx, dy \in Shifts :
                 PolygonAreaTimes2(TranslatePolygon(args[1], dx, dy)) = ret[1]
           /\ Len(args[1]) < 3 => ret[1] = 0

\* a clockwise polygon: its area is negative
C16_Witness ==
    /\ fn = "polygon_area"
    /\ ret # <<>>
    /\ Len(args[1]) = 4
    /\ ret[1] = -8

\* C17: the step of solve() that evaluates one generation leaves the
\* stagnation counter at 0 when the generation lowers the best-ever fitness,
\* raises the counter only when the generation does not lower it, and ends
\* solve() by the break exactly when the counter has reached 10
C17_StagnationCounter ==
    [][pc = "evaluate" =>
          /\ best_fitness' < best_fitness => no_improvement_count' = 0
          /\ no_improvement_count' > no_improvement_count
                => best_fitness' = best_fitness
          /\ (pc' = "done" /\ generation' = generation)
                <=> no_improvement_count' = 10]_vars

\* lo, lo + step, ... up to and including hi when hi is one of them
GridUpTo(lo, hi, step) ==
    IF hi < lo THEN {}
    ELSE {lo + k * step : k \in 0..((hi - lo) \div step)}

\* the polygon moved by (x, y) lies within the container bounds and its
\* bounding box shares no region of positive area with that of a placed part
FitsAt(polygon, placed, container_bounds, x, y) ==
    LET moved == [i \in DOMAIN polygon |->
                     Point(polygon[i].x + x, polygon[i].y + y)]
    IN  /\ SetMin(XsOf(moved)) >= container_bounds.x
        /\ SetMin(YsOf(moved)) >= container_bounds.y
        /\ SetMax(XsOf(moved))
              <= container_bounds.x + container_bounds.width
        /\ SetMax(YsOf(moved))
              <= container_bounds.y + container_bounds.height
        /\ \A k \in DOMAIN placed :
              ~ PositiveOverlap(moved, placed[k].polygon)

\* the offsets on the grid, from the container's left and bottom edge up to
\* and including (right - part width) and (top - part height), that pass
\* both tests
FittingOffsets(polygon, placed, container_bounds, step) ==
    LET width == SetMax(XsOf(polygon)) - SetMin(XsOf(polygon))
        height == SetMax(YsOf(polygon)) - SetMin(YsOf(polygon))
        xs == GridUpTo(container_bounds.x,
                       container_bounds.x + container_bounds.width - width,
                       step)
        ys == GridUpTo(container_bounds.y,
                       container_bounds.y + container_bounds.height - height,
                       step)
    IN  {c \in xs \X ys :
            FitsAt(polygon, placed, container_bounds, c[1], c[2])}

\* C18: _find_position returns the first offset of that grid, in ascending
\* y and then ascending x, that passes the containment and the non-overlap
\* test, and returns None only if no offset of the grid passes both
C18_FirstFittingOffset ==
    (fn = "_find_position" /\ ret # <<>>) =>
        LET fitting == FittingOffsets(args[1], args[2], args[3],
                                      locals.step_size)
        IN  IF fitting = {} THEN ~ ret[1].found
            ELSE /\ ret[1].found
                 /\ <<ret[1].x, ret[1].y>> \in fitting
                 /\ \A c \in fitting :
                       \/ ret[1].y < c[2]
                       \/ ret[1].y = c[2] /\ ret[1].x <= c[1]

\* C19: the grid step of _find_position is max(20, min(w, h) / 4) exactly,
\* w and h being the width and the height of the part's bounding box (both
\* sides are taken four times, which leaves the quotient whole)
C19_StepIsExactQuotient ==
    (fn = "_find_position" /\ locals # <<>>) =>
        LET width == SetMax(XsOf(args[1])) - SetMin(XsOf(args[1]))
            height == SetMax(YsOf(args[1])) - SetMin(YsOf(args[1]))
        IN  4 * locals.step_size = Max2(4 * 20, Min2(width, height))

\* the lowest fitness among the individuals of a list, inf for the empty list
BestOf(pop, h) ==
    IF pop = <<>> THEN Infinity
    ELSE SetMin({h[pop[i]].fitness : i \in DOMAIN pop})

\* the individuals at the first k places of a list
FirstOf(pop, k) == {pop[i] : i \in 1..Min2(k, Len(pop))}

IdsOf(genes) == [k \in DOMAIN genes |-> genes[k].id]

\* the sequence holds every one of 0 .. n - 1 exactly once
IsPermutation(ids, n) ==
    /\ Len(ids) = n
    /\ \A id \in 0..(n - 1) : Cardinality({k \in DOMAIN ids : ids[k] = id}) = 1

\* C21: when a generation of solve() starts, the population holds exactly
\* population_size individuals, each with as many genes as there are parts
\* and every rotation index within 0 .. rotations - 1; in generation 0 the
\* gene ids of each individual are a permutation of the part ids
C21_PopulationShape ==
    pc = "evaluate" =>
        /\ Len(population) = config.population_size
        /\ \A i \in DOMAIN population :
              LET genes == heap[population[i]].genes
              IN  /\ Len(genes) = Len(parts)
                  /\ \A k \in DOMAIN genes :
                        /\ genes[k].rotation >= 0
                        /\ genes[k].rotation <= config.rotations - 1
                  /\ generation = 0 => IsPermutation(IdsOf(genes), Len(parts))

\* a later generation starts with a child whose gene ids are no permutation
\* and with a gene turned to the second rotation variant
C21_Witness ==
    /\ pc = "evaluate"
    /\ generation >= 1
    /\ config.population_size >= 2
    /\ \E i \in DOMAIN population :
          ~ IsPermutation(IdsOf(heap[population[i]].genes), Len(parts))
    /\ \E i \in DOMAIN population :
          \E k \in DOMAIN heap[population[i]].genes :
              heap[population[i]].genes[k].rotation = 1

\* how often a gene occurs in a gene sequence
Occurrences(genes, gene) == Cardinality({k \in DOMAIN genes : genes[k] = gene})

\* after is before with the genes at two distinct places exchanged
TwoExchanged(before, after) ==
    \E i, j \in DOMAIN before :
        /\ i # j
        /\ after[i] = before[j]
        /\ after[j] = before[i]
        /\ \A k \in DOMAIN before \ {i, j} : after[k] = before[k]

\* C22: a call of _mutate exchanges the genes at two distinct positions when
\* its draw in 1..100 is at most mutation_rate and the individual has more
\* than one gene, and leaves the gene sequence as it was otherwise; either
\* way the number of genes and the number of occurrences of every gene stay,
\* no other individual changes, and the individual passed is returned
C22_MutateSwapsOrKeeps ==
    [][(fn = "_mutate" /\ ret = <<>> /\ ret' # <<>>) =>
          LET before == heap[args[1]].genes
              after == heap'[args[1]].genes
          IN  /\ locals'.draw \in 1..100
              /\ Len(after) = Len(before)
              /\ \A gene \in Genes :
                    Occurrences(after, gene) = Occurrences(before, gene)
              /\ IF locals'.draw <= config.mutation_rate /\ Len(before) > 1
                 THEN TwoExchanged(before, after)
                 ELSE after = before
              /\ DOMAIN heap' = DOMAIN heap
              /\ \A o \in DOMAIN heap \ {args[1]} : heap'[o] = heap[o]
              /\ ret'[1] = args[1]]_vars

\* _mutate has returned after a swap of two different genes: the child's
\* sequence is no longer that of the parent it was copied from
C22_Witness ==
    /\ fn = "_mutate"
    /\ ret # <<>>
    /\ locals.draw <= config.mutation_rate
    /\ Len(heap[2].genes) = MaxGenes
    /\ heap[2].genes # heap[1].genes

\* the instances made from original part original_id
InstancesOf(n, original_id) ==
    {i \in DOMAIN n.parts : n.parts[i].original_id = original_id}

RECURSIVE SumOver(_, _)
SumOver(quantities, keys) ==
    IF keys = {} THEN 0
    ELSE LET k == CHOOSE k \in keys : TRUE
         IN  quantities[k] + SumOver(quantities, keys \ {k})

\* ids are list positions, there are as many instances as the quantities add
\* up to, and the instances of each original part carry the copy numbers
\* 0 .. quantity - 1, each once
InstancesConsistent(n) ==
    /\ \A i \in DOMAIN n.parts : n.parts[i].id = i - 1
    /\ Len(n.parts) = SumOver(n.part_quantities, DOMAIN n.part_quantities)
    /\ \A i \in DOMAIN n.parts :
          n.parts[i].original_id \in DOMAIN n.part_quantities
    /\ \A original_id \in DOMAIN n.part_quantities :
          /\ {n.parts[i].copy_number : i \in InstancesOf(n, original_id)}
                = 0..(n.part_quantities[original_id] - 1)
          /\ Cardinality(InstancesOf(n, original_id))
                = n.part_quantities[original_id]

\* C23: after every call of set_parts or duplicate_part (quantities and
\* copies not negative, indices not negative) the instance list is
\* consistent in that sense; and a set_parts call with a quantities list of
\* another length than the parts list raises ValueError and leaves parts and
\* part_quantities as they were
C23_InstanceList ==
    [][/\ InstancesConsistent(nester')
       /\ (fn' = "set_parts" /\ args'[2].kind = "list"
              /\ Len(args'[2].list) # Len(args'[1])) =>
             /\ ret'[1].raised = "ValueError"
             /\ nester'.parts = nester.parts
             /\ nester'.part_quantities = nester.part_quantities]_vars

\* duplicate_part has added a second copy of the first part behind an
\* instance of the second part
C23_Witness ==
    /\ fn = "duplicate_part"
    /\ ret[1].raised = ""
    /\ \E i, j \in DOMAIN nester.parts :
          /\ i < j
          /\ nester.parts[i].original_id = 1
          /\ nester.parts[j].original_id = 0
          /\ nester.parts[j].copy_number >= 1

\* how often a part id occurs among placements, or among genes
IdCount(seq, id) == Cardinality({k \in DOMAIN seq : seq[k].id = id})

\* no more placements than genes, and no part id more often placed than the
\* genes hold it
WithinGenes(placements, genes) ==
    /\ Len(placements) <= Len(genes)
    /\ \A k \in DOMAIN placements :
          IdCount(placements, placements[k].id) <= IdCount(genes,
                                                          placements[k].id)

\* C24 as claimed: the placements solve() returns hold every part id at most
\* once and are no more than the input parts
C24_EachPartAtMostOnce ==
    result # <<>> =>
        /\ Len(result[1].placements) <= Len(parts)
        /\ \A k \in DOMAIN result[1].placements :
              IdCount(result[1].placements, result[1].placements[k].id) = 1

\* C24 amended: the placements of every individual, and those solve()
\* returns, are no more than the input parts, name input parts only, and hold
\* no part id more often than the genes of the individual do; they hold each
\* id at most once when the genes are a permutation of the part ids, as in
\* the initial population, but not after a crossover that left an id twice
C24_PlacementsWithinGenes ==
    /\ \A o \in DOMAIN heap :
          /\ WithinGenes(heap[o].placements, heap[o].genes)
          /\ Len(heap[o].placements) <= Len(parts)
          /\ IsPermutation(IdsOf(heap[o].genes), Len(parts)) =>
                \A k \in DOMAIN heap[o].placements :
                    IdCount(heap[o].placements, heap[o].placements[k].id) = 1
    /\ result # <<>> =>
          /\ Len(result[1].placements) <= Len(parts)
          /\ \A k \in DOMAIN result[1].placements :
                result[1].placements[k].id \in 0..(Len(parts) - 1)
          /\ best_individual # NoIndividual =>
                WithinGenes(result[1].placements,
                            heap[best_individual].genes)

\* solve() has returned placements that hold one part twice
C24_Witness ==
    /\ pc = "done"
    /\ result # <<>>
    /\ \E k1, k2 \in DOMAIN result[1].placements :
          /\ k1 < k2
          /\ result[1].placements[k1].id = result[1].placements[k2].id

====
